---- MODULE Spec2Model ----
(***************************************************************************)
(* NexVue: the capture-and-analyze control loop of the App component and   *)
(* the Analysis Client (src/services/geminiService.ts).                    *)
(*                                                                         *)
(* The component is a React function component.  Every handler reads the   *)
(* state values of the render that created it (its closure) and writes     *)
(* through the state setters; after a handler the component re-renders and *)
(* the effects whose dependencies changed run.  One action of this module  *)
(* is one handler (or one continuation of an async handler after an await) *)
(* together with the render and the effects it causes.                     *)
(*                                                                         *)
(* Environment assumed: window.speechSynthesis exists; canvas.getContext   *)
(* returns a context; the native file picker is modal (no click reaches    *)
(* the page while it is open, asynchronous callbacks still run).           *)
(***************************************************************************)
EXTENDS Integers, Sequences, FiniteSets, TLC

\* ---- bounds of the model
MaxCalls == 2      \* scans that got past the guard: frame reads pending plus
                   \* analyzeRoadScene invocations, in one behaviour
MaxStreams == 2    \* getUserMedia requests pending plus MediaStreams granted,
                   \* in one behaviour
MaxSpeech == 2     \* utterances speaking or queued in speechSynthesis

\* ---- values
NoStream == 0
NoSource == 0
\* the object URL of the uploaded file.  Every createObjectURL call returns a
\* new URL, but mediaSource is null between two uploads (the picker opens only
\* in mode initial, which only reset enters), so one value stands for all
ObjectURL == 1
NoTimer == 0
NoResult == [safetyLevel |-> "none", id |-> 0]
SafetyLevels == {"SAFE", "CAUTION", "DANGER"}
\* what generateContent can answer: a rejection, an empty body, a body that
\* is not JSON, or a JSON body with some safetyLevel (OTHER: outside the enum)
Replies == {"network_error", "no_text", "bad_json"} \cup SafetyLevels \cup {"OTHER"}

VARIABLES
  mode,             \* useState 'initial' | 'camera' | 'upload'
  fileType,         \* useState 'image' | 'video' | null
  mediaSource,      \* useState object URL of the uploaded file, NoSource = null
  cameraStream,     \* useState MediaStream, NoStream = null
  result,           \* useState AnalysisResult | null
  analyzing,        \* useState
  error,            \* useState string | null
  isVoiceEnabled,   \* useState
  isAutoScan,       \* useState
  autoScanInterval, \* useRef: id of the interval, NoTimer = null
  timers,           \* browser: live interval timers, each with its callback's closure
  running,          \* browser: MediaStreams with a running track
  speech,           \* browser: speechSynthesis queue, head is being spoken
  grants,           \* getUserMedia promises not yet settled
  acquired,         \* number of MediaStreams granted so far (streams are 1..acquired)
  picker,           \* the native file picker is open
  reads,            \* captureAndAnalyze invocations awaiting the still-image read
  calls,            \* analyzeRoadScene invocations awaiting generateContent
  issued,           \* number of analyzeRoadScene invocations so far
  mounted           \* the component is mounted

vars == <<mode, fileType, mediaSource, cameraStream, result, analyzing, error,
          isVoiceEnabled, isAutoScan, autoScanInterval, timers, running,
          speech, grants, acquired, picker, reads, calls, issued, mounted>>

async == <<grants, acquired, picker, reads, calls, issued, mounted>>

\* the component's state and the browser resources its handlers act on
W == [mode |-> mode, fileType |-> fileType, mediaSource |-> mediaSource,
      cameraStream |-> cameraStream, result |-> result, analyzing |-> analyzing,
      error |-> error, isVoiceEnabled |-> isVoiceEnabled, isAutoScan |-> isAutoScan,
      autoScanInterval |-> autoScanInterval, timers |-> timers,
      running |-> running, speech |-> speech]

\* the handler's outcome becomes the next state (the speech queue is bounded
\* by MaxSpeech: a step that would overfill it is left out of the model)
Commit(w) ==
  /\ Len(w.speech) <= MaxSpeech
  /\ mode' = w.mode
  /\ fileType' = w.fileType
  /\ mediaSource' = w.mediaSource
  /\ cameraStream' = w.cameraStream
  /\ result' = w.result
  /\ analyzing' = w.analyzing
  /\ error' = w.error
  /\ isVoiceEnabled' = w.isVoiceEnabled
  /\ isAutoScan' = w.isAutoScan
  /\ autoScanInterval' = w.autoScanInterval
  /\ timers' = w.timers
  /\ running' = w.running
  /\ speech' = w.speech

\* a state update by an async continuation: React ignores the setters of a
\* component that is no longer mounted, what the continuation did to the
\* browser (gone) stays
SetState(isMounted, gone, w) == IF isMounted THEN w ELSE gone

\* ---- closures and browser primitives

\* the state values captureAndAnalyze reads from the render that created it
Closure(w) == [analyzing |-> w.analyzing, fileType |-> w.fileType,
               mediaSource |-> w.mediaSource, isAutoScan |-> w.isAutoScan]

clearInterval(tm, id) == {t \in tm : t.id # id}

\* window.setInterval hands out an id no live timer has
setIntervalId(tm) == CHOOSE i \in 1..(Cardinality(tm) + 1) : \A t \in tm : t.id # i

\* ---- voice

Utterance(prefix, r) == [prefix |-> prefix, id |-> r.id]

\* speak without the priority cancel
speak_NoCancel(w, utterance, priority) ==
  IF ~w.isVoiceEnabled THEN w
  ELSE [w EXCEPT !.speech = Append(@, utterance)]

speak(w, utterance, priority) ==
  IF ~w.isVoiceEnabled THEN w
  ELSE [w EXCEPT !.speech = Append(IF priority THEN <<>> ELSE @, utterance)]

\* the voice effect without the auto-scan test on the last branch
voiceEffect_SafeAlways(old, new) ==
  IF old.result = new.result /\ old.isVoiceEnabled = new.isVoiceEnabled
     /\ old.isAutoScan = new.isAutoScan
  THEN new
  ELSE IF new.result # NoResult /\ new.isVoiceEnabled
       THEN IF new.result.safetyLevel = "DANGER"
            THEN speak(new, Utterance("Warning", new.result), TRUE)
            ELSE IF new.result.safetyLevel = "CAUTION"
                 THEN speak(new, Utterance("Caution", new.result), FALSE)
                 ELSE speak(new, Utterance("", new.result), FALSE)
       ELSE new

voiceEffect(old, new) ==
  IF old.result = new.result /\ old.isVoiceEnabled = new.isVoiceEnabled
     /\ old.isAutoScan = new.isAutoScan
  THEN new
  ELSE IF new.result # NoResult /\ new.isVoiceEnabled
       THEN IF new.result.safetyLevel = "DANGER"
            THEN speak(new, Utterance("Warning", new.result), TRUE)
            ELSE IF new.result.safetyLevel = "CAUTION"
                 THEN speak(new, Utterance("Caution", new.result), FALSE)
                 ELSE IF ~new.isAutoScan
                      THEN speak(new, Utterance("", new.result), FALSE)
                      ELSE new
       ELSE new

\* ---- auto-scan effect: cleanup of the previous run, then the body

\* an effect cleanup that does not clear the interval
autoScanCleanup_NoClear(w) == w

autoScanCleanup(w) ==
  IF w.autoScanInterval # NoTimer
  THEN [w EXCEPT !.timers = clearInterval(@, w.autoScanInterval)]
  ELSE w

autoScanBody(w) ==
  IF w.isAutoScan
  THEN LET id == setIntervalId(w.timers)
       IN [w EXCEPT !.timers = @ \cup {[id |-> id, closure |-> Closure(w)]},
                    !.autoScanInterval = id]
  ELSE IF w.autoScanInterval # NoTimer
       THEN [w EXCEPT !.timers = clearInterval(@, w.autoScanInterval),
                      !.autoScanInterval = NoTimer]
       ELSE w

autoScanEffect(old, new) ==
  IF old.isAutoScan = new.isAutoScan /\ old.fileType = new.fileType
     /\ old.mediaSource = new.mediaSource /\ old.mode = new.mode
     /\ old.cameraStream = new.cameraStream
  THEN new
  ELSE autoScanBody(autoScanCleanup(new))

\* re-render after a handler: the effects run in declaration order
Render(old, new) == autoScanEffect(old, voiceEffect(old, new))

\* ---- handlers, as functions of the state they run in

\* stopCamera dropping the stream without stopping its tracks
stopCamera_KeepsTracks(w) ==
  IF w.cameraStream # NoStream
  THEN [w EXCEPT !.cameraStream = NoStream]
  ELSE w

stopCamera(w) ==
  IF w.cameraStream # NoStream
  THEN [w EXCEPT !.running = @ \ {w.cameraStream}, !.cameraStream = NoStream]
  ELSE w

\* reset without setIsAutoScan(false)
reset_KeepsAutoScan(w) ==
  Render(w, [stopCamera(w) EXCEPT !.mode = "initial",
                                  !.mediaSource = NoSource, !.result = NoResult,
                                  !.fileType = "null", !.error = "null"])

reset(w) ==
  Render(w, [stopCamera(w) EXCEPT !.isAutoScan = FALSE, !.mode = "initial",
                                  !.mediaSource = NoSource, !.result = NoResult,
                                  !.fileType = "null", !.error = "null"])

startCameraGranted(w, stream) ==
  Render(w, [w EXCEPT !.running = @ \cup {stream}, !.cameraStream = stream,
                      !.mode = "camera", !.fileType = "video",
                      !.error = "null", !.result = NoResult])

\* a catch block that also drops the displayed result
startCameraFailed_ClearsResult(w) ==
  Render(w, [w EXCEPT !.error = "camera", !.result = NoResult])

startCameraFailed(w) ==
  Render(w, [w EXCEPT !.error = "camera"])

handleFileUpload(w, url, isVideo) ==
  Render(w, [w EXCEPT !.mediaSource = url, !.mode = "upload",
                      !.result = NoResult, !.error = "null",
                      !.fileType = IF isVideo THEN "video" ELSE "image"])

toggleAutoScan(w) == Render(w, [w EXCEPT !.isAutoScan = ~@])

\* a voice toggle that forgets speechSynthesis.cancel()
toggleVoice_NoCancel(w) ==
  Render(w, [w EXCEPT !.isVoiceEnabled = ~@])

toggleVoice(w) ==
  LET newState == ~w.isVoiceEnabled
  IN Render(w, [w EXCEPT !.isVoiceEnabled = newState,
                         !.speech = IF ~newState THEN <<>> ELSE @])

\* cleanup of the mount effect (deps []): its closure is the first render's,
\* where cameraStream is null; the ref is read when the cleanup runs
unmountCleanup(w) ==
  LET stream == NoStream
      stopped == IF stream # NoStream
                 THEN [w EXCEPT !.running = @ \ {stream}]
                 ELSE w
  IN IF stopped.autoScanInterval # NoTimer
     THEN [stopped EXCEPT !.timers = clearInterval(@, stopped.autoScanInterval)]
     ELSE stopped

\* unmount: the cleanups of the effects run in declaration order
unmount(w) == autoScanCleanup(unmountCleanup(w))

\* ---- Analysis Client

\* an Analysis Client that answers an unparseable body with a default verdict
analyzeRoadScene_DefaultsOnBadJson(reply, id) ==
  IF reply \in {"network_error", "no_text"}
  THEN [ok |-> FALSE, value |-> NoResult]
  ELSE [ok |-> TRUE,
        value |-> [safetyLevel |-> IF reply = "bad_json" THEN "SAFE" ELSE reply,
                   id |-> id]]

\* analyzeRoadScene after generateContent answered: throws, or returns the
\* parsed body as it is with a timestamp
analyzeRoadScene(reply, id) ==
  IF reply \in {"network_error", "no_text", "bad_json"}
  THEN [ok |-> FALSE, value |-> NoResult]
  ELSE [ok |-> TRUE, value |-> [safetyLevel |-> reply, id |-> id]]

\* a not-ready outcome that reports an error
notReady_SetsError(w) == Render(w, [w EXCEPT !.error = "analysis"])

\* captureAndAnalyze when the source is not ready (zero-sized video frame,
\* still image that cannot be read): return
notReady(w) == w

\* captureAndAnalyze from "if (imageDataUrl)" to the await
submitFrame(w) == Render(w, [w EXCEPT !.analyzing = TRUE])

\* a success path without setError(null)
analysisSettled_KeepsError(w, cl, outcome) ==
  Render(w, IF outcome.ok
            THEN [w EXCEPT !.result = outcome.value, !.analyzing = FALSE]
            ELSE [w EXCEPT !.error = IF ~cl.isAutoScan THEN "analysis" ELSE @,
                           !.analyzing = FALSE])

\* captureAndAnalyze after the await: try / catch / finally
analysisSettled(w, cl, outcome) ==
  Render(w, IF outcome.ok
            THEN [w EXCEPT !.result = outcome.value, !.error = "null",
                           !.analyzing = FALSE]
            ELSE [w EXCEPT !.error = IF ~cl.isAutoScan THEN "analysis" ELSE @,
                           !.analyzing = FALSE])

Init ==
  /\ mode = "initial"
  /\ fileType = "null"
  /\ mediaSource = NoSource
  /\ cameraStream = NoStream
  /\ result = NoResult
  /\ analyzing = FALSE
  /\ error = "null"
  /\ isVoiceEnabled = FALSE
  /\ isAutoScan = FALSE
  /\ autoScanInterval = NoTimer
  /\ timers = {}
  /\ running = {}
  /\ speech = <<>>
  /\ grants = 0
  /\ acquired = 0
  /\ picker = FALSE
  /\ reads = <<>>
  /\ calls = {}
  /\ issued = 0
  /\ mounted = TRUE

\* ---- actions

\* LIVE CAMERA button (rendered in mode initial): startCamera up to the await
StartCamera ==
  /\ mounted /\ mode = "initial" /\ ~picker
  /\ grants + acquired < MaxStreams
  /\ grants' = grants + 1
  /\ UNCHANGED <<mode, fileType, mediaSource, cameraStream, result, analyzing,
                 error, isVoiceEnabled, isAutoScan, autoScanInterval, timers,
                 running, speech, acquired, picker, reads, calls, issued, mounted>>

\* getUserMedia resolves with a new stream
CameraGranted ==
  /\ grants > 0
  /\ grants' = grants - 1
  /\ acquired' = acquired + 1
  /\ Commit(SetState(mounted, [W EXCEPT !.running = @ \cup {acquired + 1}],
                     startCameraGranted(W, acquired + 1)))
  /\ UNCHANGED <<picker, reads, calls, issued, mounted>>

\* getUserMedia rejects
CameraDenied ==
  /\ grants > 0
  /\ grants' = grants - 1
  /\ Commit(SetState(mounted, W, startCameraFailed(W)))
  /\ UNCHANGED <<acquired, picker, reads, calls, issued, mounted>>

\* UPLOAD MEDIA button (rendered in mode initial) opens the file picker
OpenPicker ==
  /\ mounted /\ mode = "initial" /\ ~picker
  /\ picker' = TRUE
  /\ UNCHANGED <<mode, fileType, mediaSource, cameraStream, result, analyzing,
                 error, isVoiceEnabled, isAutoScan, autoScanInterval, timers,
                 running, speech, grants, acquired, reads, calls, issued, mounted>>

\* the picker is dismissed without a file: no change event
CancelPicker ==
  /\ mounted /\ picker
  /\ picker' = FALSE
  /\ UNCHANGED <<mode, fileType, mediaSource, cameraStream, result, analyzing,
                 error, isVoiceEnabled, isAutoScan, autoScanInterval, timers,
                 running, speech, grants, acquired, reads, calls, issued, mounted>>

\* a file is chosen: the input's change event
FileChosen ==
  /\ mounted /\ picker
  /\ \E isVideo \in BOOLEAN :
       Commit(handleFileUpload(W, ObjectURL, isVideo))
  /\ picker' = FALSE
  /\ UNCHANGED <<grants, acquired, reads, calls, issued, mounted>>

\* AUTO / STOP button (rendered when mode is not initial and fileType is video)
ToggleAutoScan ==
  /\ mounted /\ mode # "initial" /\ fileType = "video" /\ ~picker
  /\ Commit(toggleAutoScan(W))
  /\ UNCHANGED async

\* voice toggle button (always rendered)
ToggleVoice ==
  /\ mounted /\ ~picker
  /\ Commit(toggleVoice(W))
  /\ UNCHANGED async

\* RESET button (rendered when mode is not initial)
Reset ==
  /\ mounted /\ mode # "initial" /\ ~picker
  /\ Commit(reset(W))
  /\ UNCHANGED async

\* captureAndAnalyze called with the closure cl, up to its first await
captureAndAnalyze(cl, manual) ==
  IF cl.analyzing
  THEN UNCHANGED vars
  ELSE IF cl.fileType = "video" /\ mode # "initial" /\ fileType = "video"
       THEN \E ready \in BOOLEAN :
              IF ~ready
              THEN Commit(notReady(W)) /\ UNCHANGED async
              ELSE /\ Len(reads) + issued < MaxCalls
                   /\ Commit(submitFrame(W))
                   /\ issued' = issued + 1
                   /\ calls' = calls \cup {[id |-> issued + 1,
                                            isAutoScan |-> cl.isAutoScan,
                                            manual |-> manual]}
                   /\ UNCHANGED <<grants, acquired, picker, reads, mounted>>
       ELSE IF cl.fileType = "image" /\ cl.mediaSource # NoSource
            THEN /\ Len(reads) + issued < MaxCalls
                 /\ reads' = Append(reads, [isAutoScan |-> cl.isAutoScan,
                                            manual |-> manual])
                 /\ UNCHANGED <<mode, fileType, mediaSource, cameraStream, result,
                                analyzing, error, isVoiceEnabled, isAutoScan,
                                autoScanInterval, timers, running, speech,
                                grants, acquired, picker, calls, issued, mounted>>
            ELSE UNCHANGED vars

\* SCAN button (rendered when mode is not initial and auto-scan is off,
\* disabled while analyzing)
ManualScan ==
  /\ mounted /\ mode # "initial" /\ ~isAutoScan /\ ~analyzing /\ ~picker
  /\ captureAndAnalyze(Closure(W), TRUE)

\* an interval timer fires
Tick ==
  \E t \in timers : captureAndAnalyze(t.closure, FALSE)

RemoveAt(s, i) == [j \in 1..(Len(s) - 1) |-> IF j < i THEN s[j] ELSE s[j + 1]]

\* the still-image read finishes: with a data URL, or failing / empty
ImageRead ==
  \E i \in 1..Len(reads) : \E ok \in BOOLEAN :
    /\ reads' = RemoveAt(reads, i)
    /\ IF ok
       THEN /\ Commit(SetState(mounted, W, submitFrame(W)))
            /\ issued' = issued + 1
            /\ calls' = calls \cup {[id |-> issued + 1,
                                     isAutoScan |-> reads[i].isAutoScan,
                                     manual |-> reads[i].manual]}
       ELSE /\ Commit(SetState(mounted, W, notReady(W)))
            /\ UNCHANGED <<calls, issued>>
    /\ UNCHANGED <<grants, acquired, picker, mounted>>

\* generateContent answers one outstanding request
AnalysisResponse ==
  \E c \in calls : \E reply \in Replies :
    /\ calls' = calls \ {c}
    /\ Commit(SetState(mounted, W,
                       analysisSettled(W, c, analyzeRoadScene(reply, c.id))))
    /\ UNCHANGED <<grants, acquired, picker, reads, issued, mounted>>

\* the component is unmounted
Unmount ==
  /\ mounted
  /\ mounted' = FALSE
  /\ Commit(unmount(W))
  /\ UNCHANGED <<grants, acquired, picker, reads, calls, issued>>

\* the utterance being spoken ends
SpeechEnds ==
  /\ speech # <<>>
  /\ speech' = Tail(speech)
  /\ UNCHANGED <<mode, fileType, mediaSource, cameraStream, result, analyzing,
                 error, isVoiceEnabled, isAutoScan, autoScanInterval, timers,
                 running, grants, acquired, picker, reads, calls, issued, mounted>>

Next ==
  \/ StartCamera
  \/ CameraGranted
  \/ CameraDenied
  \/ OpenPicker
  \/ CancelPicker
  \/ FileChosen
  \/ ToggleAutoScan
  \/ ToggleVoice
  \/ Reset
  \/ ManualScan
  \/ Tick
  \/ ImageRead
  \/ AnalysisResponse
  \/ SpeechEnds

\* the life of the mounted component
Spec == Init /\ [][Next]_vars

\* the same with the teardown: the component may be unmounted at any time,
\* the continuations of its pending async handlers still run afterwards
NextUnmount == Next \/ Unmount

SpecUnmount == Init /\ [][NextUnmount]_vars

TypeOK ==
  /\ mode \in {"initial", "camera", "upload"}
  /\ fileType \in {"null", "image", "video"}
  /\ Cardinality(calls) <= MaxCalls
  /\ Len(speech) <= MaxSpeech

\* ---- steps the claims speak about

\* a response made an analysis fail: a request left, no new result came
AnalysisFailed ==
  mounted /\ calls' # calls /\ calls' \subseteq calls /\ result' = result

\* a response delivered a new result
NewResult == calls' # calls /\ calls' \subseteq calls /\ result' # result

\* the delivered result is the answer to a request the SCAN button started
FromManualScan == \E c \in calls : c.id = result'.id /\ c.manual

\* getUserMedia rejected
AcquisitionFailed == mounted /\ grants' = grants - 1 /\ acquired' = acquired

\* ---- C1
\* C1: at most one analyzeRoadScene call awaits its response at any time, and
\* a captureAndAnalyze invoked (SCAN button or timer tick) while a request is
\* in flight issues no call and changes no state.
C1_NoOverlap ==
  [][/\ Cardinality(calls') <= 1
     /\ (calls # {} /\ (ManualScan \/ Tick) => UNCHANGED vars)]_vars

\* ---- C2
\* C2: from every reachable state reset() yields mode initial, no fileType,
\* no mediaSource, no cameraStream (the stream it held has no running track),
\* no result, no error and auto-scan off; and reset() after reset() changes
\* nothing.
C2_ResetPostState ==
  LET w == reset(W)
  IN /\ w.mode = "initial"
     /\ w.fileType = "null"
     /\ w.mediaSource = NoSource
     /\ w.cameraStream = NoStream
     /\ cameraStream \notin w.running
     /\ w.result = NoResult
     /\ w.error = "null"
     /\ w.isAutoScan = FALSE
     /\ reset(w) = w

\* reset() has run on a camera session: back in initial, a stream is stopped
C2_Witness ==
  /\ mode = "initial" /\ cameraStream = NoStream /\ ~isAutoScan
  /\ \E s \in 1..acquired : s \notin running

\* ---- C3
\* C3: when auto-scan is off no interval timer exists (so no tick calls
\* captureAndAnalyze), and at most one interval timer exists in any state.
C3_NoOrphanedTimer ==
  /\ ~isAutoScan => timers = {}
  /\ Cardinality(timers) <= 1
  /\ \A t \in timers : t.id = autoScanInterval

\* auto-scan was switched off while a request started by a tick is in flight
C3_Witness == ~isAutoScan /\ timers = {} /\ \E c \in calls : ~c.manual

\* ---- C4
\* C4: auto-scan on implies mode is not initial and the source is a
\* continuous one: fileType video with a camera stream or an uploaded file.
C4_AutoScanOnlyOnVideo ==
  isAutoScan => /\ mode # "initial"
                /\ fileType = "video"
                /\ (cameraStream # NoStream \/ mediaSource # NoSource)

\* auto-scan on a camera whose grant arrived after a file had been uploaded
C4_Witness == isAutoScan /\ mode = "camera" /\ mediaSource # NoSource

\* ---- C5
\* C5: when an analysis fails, analyzing becomes false, and error is set
\* exactly when auto-scan is off at the time the failure is handled.
C5_ErrorIffAutoScanOff ==
  [][AnalysisFailed =>
       /\ analyzing' = FALSE
       /\ (isAutoScan => error' = error)
       /\ (~isAutoScan => error' = "analysis")]_vars

\* ---- C6
\* C6: an analysis failing while auto-scan is on leaves isAutoScan, the
\* timer, mode, fileType, the capture session, the result and the error as
\* they were, the timer still exists, and analyzing is false.
C6_FailureDuringAutoScan ==
  [][AnalysisFailed /\ isAutoScan =>
       /\ UNCHANGED <<isAutoScan, timers, autoScanInterval, mode, fileType,
                      mediaSource, cameraStream, result, error>>
       /\ timers' # {}
       /\ analyzing' = FALSE]_vars

\* ---- C7
\* C7: with voice enabled, a new DANGER result is spoken after the queue was
\* cancelled (it is alone in the queue), and a new CAUTION result is appended
\* to the queue, which keeps what it held; auto-scan on or off.
C7_DangerCancelsCautionQueues ==
  [][NewResult /\ isVoiceEnabled' =>
       /\ (result'.safetyLevel = "DANGER"
             => speech' = <<Utterance("Warning", result')>>)
       /\ (result'.safetyLevel = "CAUTION"
             => speech' = Append(speech, Utterance("Caution", result')))]_vars

\* a DANGER result was spoken during auto-scan
C7_Witness ==
  /\ isVoiceEnabled /\ isAutoScan /\ result.safetyLevel = "DANGER"
  /\ speech = <<Utterance("Warning", result)>>

\* ---- C8
\* a SAFE recommendation was put in the speech queue by this step
SafeSpoken ==
  /\ result'.safetyLevel = "SAFE"
  /\ speech' = Append(speech, Utterance("", result'))

\* C8 (as claimed): with voice enabled a SAFE result is spoken only when
\* auto-scan is off, and a SAFE result of a manually triggered scan is always
\* spoken, also when auto-scan was switched on while the scan was in flight.
C8_ManualSafeAlwaysSpoken ==
  [][/\ (SafeSpoken => ~isAutoScan')
     /\ (NewResult /\ FromManualScan /\ isVoiceEnabled'
           /\ result'.safetyLevel = "SAFE" => SafeSpoken)]_vars

\* C8 (amended): with voice enabled a SAFE result is spoken only when
\* auto-scan is off; a new SAFE result, of a manual scan or of a tick, is
\* spoken when auto-scan is off at its arrival and is not spoken when
\* auto-scan is on at its arrival.
C8_SafeSpokenIffAutoScanOff ==
  [][/\ (SafeSpoken => ~isAutoScan')
     /\ (NewResult /\ isVoiceEnabled' /\ result'.safetyLevel = "SAFE" =>
           /\ (~isAutoScan' => SafeSpoken)
           /\ (isAutoScan' => speech' = speech))]_vars

\* the first scan's SAFE result arrived with voice on and auto-scan on, the
\* timer having been created while that scan was in flight: not spoken
C8_Witness ==
  /\ isVoiceEnabled /\ isAutoScan
  /\ result = [safetyLevel |-> "SAFE", id |-> 1]
  /\ \E t \in timers : t.closure.analyzing
  /\ \A i \in 1..Len(speech) : speech[i].id # 1

\* ---- C9
\* C9: when camera acquisition fails the error is set and mode, fileType,
\* cameraStream, mediaSource, result and isAutoScan are unchanged.
C9_AcquisitionFailure ==
  [][AcquisitionFailed =>
       /\ error' = "camera"
       /\ UNCHANGED <<mode, fileType, cameraStream, mediaSource, result,
                      isAutoScan, running, timers>>]_vars

\* acquisition failed from Idle: error shown, still initial, no session
C9_Witness ==
  /\ error = "camera" /\ mode = "initial"
  /\ cameraStream = NoStream /\ mediaSource = NoSource /\ acquired = 0

\* ---- C10
\* C10: in every state with mode initial, analyzing and isAutoScan are false.
C10_IdleForcesScanState ==
  mode = "initial" => ~analyzing /\ ~isAutoScan

\* ---- C11
\* C11: an accepted scan sets analyzing, and when its analysis succeeds
\* analyzing is false again, the result is the object analyzeRoadScene
\* returned for that request (nothing of the previous result is kept) and
\* error is null, whatever it was before.
C11_SuccessReplacesResult ==
  [][/\ (mounted /\ issued' = issued + 1 => analyzing')
     /\ (NewResult =>
           /\ ~analyzing'
           /\ error' = "null"
           /\ \E c \in calls \ calls' : \E r \in Replies :
                /\ analyzeRoadScene(r, c.id).ok
                /\ result' = analyzeRoadScene(r, c.id).value)]_vars

\* one scan of an uploaded still image has succeeded
C11_Witness ==
  /\ mounted /\ mode = "upload" /\ fileType = "image"
  /\ issued = 1 /\ calls = {} /\ ~analyzing
  /\ result.id = 1 /\ error = "null"

\* ---- C12
\* the component's state and the browser resources, without the bookkeeping
\* of pending frame reads
capture == <<mode, fileType, mediaSource, cameraStream, result, analyzing,
             error, isVoiceEnabled, isAutoScan, autoScanInterval, timers,
             running, speech, calls, issued>>

\* C12: a captureAndAnalyze that finds the source not ready (a SCAN click or
\* a tick that starts neither a read nor a call, a still-image read that
\* fails) issues no analyzeRoadScene call and leaves analyzing, result,
\* error, mode, isAutoScan and the timer as they were.
C12_NotReadyChangesNothing ==
  [][/\ (mounted /\ (ManualScan \/ Tick) /\ issued' = issued /\ reads' = reads
           => UNCHANGED vars)
     /\ (mounted /\ Len(reads') < Len(reads) /\ issued' = issued
           => UNCHANGED capture)]_vars

\* auto-scan ticks on a video source and no tick has found a frame yet
C12_Witness ==
  /\ mounted /\ isAutoScan /\ timers # {} /\ fileType = "video"
  /\ issued = 0 /\ calls = {} /\ ~analyzing /\ error = "null"

\* ---- C13
\* C13: when mode, fileType, mediaSource or cameraStream changes while
\* auto-scan is on, auto-scan is off afterwards and no timer is left.
C13_ChangeDisablesAutoScan ==
  [][mounted /\ isAutoScan
       /\ <<mode, fileType, mediaSource, cameraStream>>'
            # <<mode, fileType, mediaSource, cameraStream>>
       => ~isAutoScan' /\ timers' = {}]_vars

\* ---- C14
\* C14: after unmount the camera stream the component held has no running
\* track and no interval timer is left.
C14_UnmountReleases ==
  ~mounted => cameraStream \notin running /\ timers = {}

\* ---- C15
\* C15: cameraStream and mediaSource are never both set, a camera stream
\* is held only in mode camera and a media source only in mode upload.
C15_OneCaptureSession ==
  /\ ~(cameraStream # NoStream /\ mediaSource # NoSource)
  /\ (cameraStream # NoStream => mode = "camera")
  /\ (mediaSource # NoSource => mode = "upload")

\* ---- C16
\* C16: analyzeRoadScene rejects when the network call fails, the reply has
\* no text or the text is not JSON; a failed request is not issued again:
\* the failure step issues no call, and a call is issued only by a SCAN
\* click, a tick or the frame read of one of them, one call at a time.
C16_AttemptOnce ==
  /\ \A r \in {"network_error", "no_text", "bad_json"} :
       ~analyzeRoadScene(r, 1).ok
  /\ [][/\ (AnalysisFailed =>
              /\ issued' = issued
              /\ reads' = reads
              /\ Cardinality(calls') = Cardinality(calls) - 1)
        /\ (issued' # issued =>
              /\ issued' = issued + 1
              /\ Cardinality(calls') = Cardinality(calls) + 1
              /\ (ManualScan \/ Tick \/ ImageRead))]_vars

\* a manual scan failed and nothing was issued after it
C16_Witness ==
  /\ mounted /\ error = "analysis" /\ issued = 1 /\ calls = {}
  /\ ~analyzing /\ result = NoResult

\* ---- C17
\* C17: a reply whose safetyLevel is outside SAFE, CAUTION, DANGER never
\* becomes the displayed result.
C17_SchemaViolationRejected ==
  result.safetyLevel \in SafetyLevels \cup {"none"}

\* ---- C18
\* C18: while voice is disabled nothing is being spoken or queued: no
\* utterance is started, and switching voice off cancels the queue.
C18_NoSpeechWhenVoiceOff ==
  ~isVoiceEnabled => speech = <<>>

\* a DANGER result is displayed with voice off and nothing is spoken
C18_Witness ==
  mounted /\ ~isVoiceEnabled /\ result.safetyLevel = "DANGER" /\ speech = <<>>

\* ---- C19
\* C19: whenever auto-scan is on, a tick of its timer gets past the
\* in-flight guard once no request is in flight, so that ticks keep leading
\* to analysis calls.
C19_TicksKeepScanning ==
  mounted /\ isAutoScan /\ calls = {} /\ ~analyzing
    => \E t \in timers : ~t.closure.analyzing

\* ---- C20
\* C20: once reset() has been called, result and the analysis error stay
\* null until a scan started after that reset completes; in mode initial no
\* scan can be started, so none is set there.
C20_NoStaleResponse ==
  mode = "initial" => result = NoResult /\ error # "analysis"

\* ---- C21
\* C21: the analyzing flag is true exactly when a call to the Analysis
\* Client awaits its response: never false with a call outstanding, never
\* true with none.
C21_AnalyzingIffOutstanding ==
  mounted => (analyzing <=> calls # {})

\* ---- C22
\* an utterance is handed to speechSynthesis in this step
UtteranceStarted ==
  /\ speech' # <<>>
  /\ speech' # speech
  /\ (speech = <<>> \/ speech' # Tail(speech))

\* C22: an utterance is started only by the arrival of a new result; no
\* toggle of voice or auto-scan speaks the result that is already displayed.
C22_SpokenAtMostOnce ==
  [][UtteranceStarted => result' # result]_vars

\* ---- C23
\* C23: after reset() (the only way into mode initial) no acquired stream
\* has a running track, whatever the order of the grants; and in mode
\* camera cameraStream is set.
C23_EveryStreamReleased ==
  /\ (mode = "initial" => running = {})
  /\ (mode = "camera" => cameraStream # NoStream)
====
